---------------------------- MODULE Spec2Model ----------------------------
(***************************************************************************)
(* A model of permutation_compression: the LRArray (src/src/lr_array.rs),  *)
(* the Lehmer transforms and the framing codec (src/src/lib.rs).           *)
(*                                                                         *)
(* Rust vectors are modelled as functions on 0..len-1 (LRArray) or as      *)
(* sequences (permutations, byte streams; element i of the code is         *)
(* element i+1 of the sequence).  A panic is modelled as an outcome        *)
(* record with panic = TRUE.                                               *)
(***************************************************************************)
EXTENDS Integers, Sequences, FiniteSets, TLC

VARIABLES
    lr,       \* the LRArray under test
    call,     \* the last LRArray call: its name, argument and outcome
    hist,     \* the calls made so far (scenario specification only)
    buf,      \* the slice the Lehmer transforms rewrite in place
    orig,     \* what buf held at the start
    ops,      \* the transforms applied to buf so far
    cmode,    \* the CompressionMode of the codec calls
    input,    \* the permutation handed to compress_permutation
    stream,   \* the bytes compress_permutation returned
    result,   \* the outcome of the last decompress call
    range,    \* the range of the last decompress_permutation_range call
    pc        \* the codec's last operation

vars == <<lr, call, hist, buf, orig, ops, cmode, input, stream, result, range, pc>>
lrVars == <<lr, call, hist>>
lehmerVars == <<buf, orig, ops>>
codecVars == <<cmode, input, stream, result, range, pc>>

(***************************************************************************)
(* Bounds of the model.                                                    *)
(***************************************************************************)
MaxBits == 9        \* LRArray sizes 0..MaxBits
MaxLen == 6         \* Lehmer transforms on slices of length 0..MaxLen
MaxOps == 2         \* Lehmer transforms applied in a row to one slice
MaxCalls == 6       \* mutating calls of the LRArray(50) scenario
MaxSmall == 3       \* codec: every permutation of length 0..MaxSmall
MaxBlocks == 2      \* codec: long permutations of up to MaxBlocks full blocks

(***************************************************************************)
(*                              LRArray                                    *)
(***************************************************************************)
LRArray(size) ==
    [ total_bits     |-> size,
      total_set_bits |-> 0,
      vals           |-> [i \in 0..(size - 1) |-> FALSE],
      f              |-> [i \in 0..(size * 2 - 1) |-> 0] ]

unset_bits(a) == a.total_bits - a.total_set_bits

set_bits(a) == a.total_set_bits

total_bits(a) == a.total_bits

\* let child_range_size = (curr_stop - curr_start) / 2;
child_range_size(curr_start, curr_stop) == (curr_stop - curr_start) \div 2

\* let free_bits_left = child_range_size - self.f[left_child_idx];
free_bits_left_of_parent(a, f_idx, crs) == crs - a.f[f_idx]
free_bits_left(a, f_idx, crs) == crs - a.f[f_idx * 2 + 1]

\* the while loop of unset_before: the state it ends in
RECURSIVE unset_before_loop(_, _, _, _, _, _)
unset_before_loop(a, n, curr_start, curr_stop, f_idx, num_bits_before) ==
    IF curr_stop - curr_start > 2
    THEN LET crs == child_range_size(curr_start, curr_stop)
             free == free_bits_left(a, f_idx, crs)
             midpoint == curr_start + crs
         IN  IF n < midpoint
             THEN unset_before_loop(a, n, curr_start, curr_stop - crs,
                                    f_idx * 2 + 1, num_bits_before)
             ELSE unset_before_loop(a, n, curr_start + crs, curr_stop,
                                    f_idx * 2 + 2, num_bits_before + free)
    ELSE [curr_start |-> curr_start, curr_stop |-> curr_stop,
          f_idx |-> f_idx, num_bits_before |-> num_bits_before]

\* if n > curr_start && !self.vals[n - 1] { num_bits_before += 1; }
unset_before_leaf_no_guard(a, n, s) ==
    IF n > 0 /\ ~a.vals[n - 1] THEN s.num_bits_before + 1 ELSE s.num_bits_before
unset_before_leaf(a, n, s) ==
    IF n > s.curr_start /\ ~a.vals[n - 1]
    THEN s.num_bits_before + 1
    ELSE s.num_bits_before

unset_before(a, n) ==
    IF n >= total_bits(a)
    THEN unset_bits(a)
    ELSE unset_before_leaf(a, n, unset_before_loop(a, n, 0, a.total_bits, 0, 0))

\* self.f[f_idx] += 1
incr_skipped(f, f_idx) == f
incr(f, f_idx) == [f EXCEPT ![f_idx] = @ + 1]

\* the while loop of set_nth_bit: the state it ends in
RECURSIVE set_nth_bit_loop(_, _, _, _, _)
set_nth_bit_loop(f, n, curr_start, curr_stop, f_idx) ==
    IF curr_stop - curr_start > 2
    THEN LET crs == child_range_size(curr_start, curr_stop)
             midpoint == curr_start + crs
         IN  IF n < midpoint
             THEN LET l == f_idx * 2 + 1
                  IN  set_nth_bit_loop(incr(f, l), n,
                                       curr_start, curr_stop - crs, l)
             ELSE LET r == f_idx * 2 + 2
                  IN  set_nth_bit_loop(incr(f, r), n,
                                       curr_start + crs, curr_stop, r)
    ELSE [curr_start |-> curr_start, curr_stop |-> curr_stop,
          f_idx |-> f_idx, f |-> f]


\* The outcome of set_nth_bit: the array after the call, the value returned,
\* and whether the call panicked (vals[n] out of range, the debug assertion).
set_nth_bit(a, n) ==
    IF n >= a.total_bits
    THEN [lr |-> a, ret |-> FALSE, panic |-> TRUE]
    ELSE IF a.vals[n]
    THEN [lr |-> a, ret |-> TRUE, panic |-> FALSE]
    ELSE IF a.f[0] # set_bits(a)
    THEN [lr |-> a, ret |-> FALSE, panic |-> TRUE]
    ELSE LET s == set_nth_bit_loop(incr(a.f, 0), n, 0, a.total_bits, 0)
         IN  [lr |-> [a EXCEPT !.f = s.f,
                               !.vals = [@ EXCEPT ![n] = TRUE],
                               !.total_set_bits = @ + 1],
              ret |-> FALSE, panic |-> FALSE]

\* the while loop of set_kth_unset_bit: the state it ends in
RECURSIVE set_kth_unset_bit_loop(_, _, _, _, _)
set_kth_unset_bit_loop(a, k, curr_start, curr_stop, f_idx) ==
    IF curr_stop - curr_start > 2
    THEN LET crs == child_range_size(curr_start, curr_stop)
             free == free_bits_left(a, f_idx, crs)
         IN  IF free > k
             THEN LET l == f_idx * 2 + 1
                  IN  set_kth_unset_bit_loop([a EXCEPT !.f = incr(@, l)], k,
                                             curr_start, curr_stop - crs, l)
             ELSE LET r == f_idx * 2 + 2
                  IN  set_kth_unset_bit_loop([a EXCEPT !.f = incr(@, r)], k - free,
                                             curr_start + crs, curr_stop, r)
    ELSE [curr_start |-> curr_start, curr_stop |-> curr_stop,
          f_idx |-> f_idx, k |-> k, lr |-> a]

\* let idx = if k == 1 || self.vals[curr_start] { curr_start + 1 } else { curr_start };
leaf_idx_no_tiebreak(a, k, curr_start) ==
    IF k = 1 THEN curr_start + 1 ELSE curr_start
leaf_idx(a, k, curr_start) ==
    IF k = 1 \/ a.vals[curr_start] THEN curr_start + 1 ELSE curr_start

\* The outcome of set_kth_unset_bit: the array after the call, the index
\* returned, the values of the two leaf assertions, and whether the call
\* panicked (k out of range, a failed assertion, an index out of range).
set_kth_unset_bit(a, k) ==
    IF k >= unset_bits(a) \/ a.f[0] # set_bits(a)
    THEN [lr |-> a, ret |-> 0, k_lt_2 |-> TRUE, bit_unset |-> TRUE, panic |-> TRUE]
    ELSE LET s == set_kth_unset_bit_loop([a EXCEPT !.f = incr(@, 0)], k,
                                         0, a.total_bits, 0)
             idx == leaf_idx(s.lr, s.k, s.curr_start)
             inRange == idx < a.total_bits
             kOk == s.k < 2
             unsetOk == inRange /\ ~s.lr.vals[idx]
         IN  IF kOk /\ unsetOk
             THEN [lr |-> [s.lr EXCEPT !.vals = [@ EXCEPT ![idx] = TRUE],
                                       !.total_set_bits = @ + 1],
                   ret |-> idx, k_lt_2 |-> TRUE, bit_unset |-> TRUE,
                   panic |-> FALSE]
             ELSE [lr |-> s.lr, ret |-> idx, k_lt_2 |-> kOk,
                   bit_unset |-> unsetOk, panic |-> TRUE]

(***************************************************************************)
(* The nodes of the tree: the root is node 0 with range [0, total_bits);   *)
(* a node of width > 2 has the children the three descents go to.  lo and  *)
(* hi are curr_start and curr_stop at the node; the indices n whose        *)
(* descent reaches the node (n < midpoint goes left) are [lo, cov).        *)
(***************************************************************************)
RECURSIVE Nodes(_, _, _, _)
Nodes(t, lo, hi, cov) ==
    {[t |-> t, lo |-> lo, hi |-> hi, cov |-> cov]} \cup
    IF hi - lo > 2
    THEN LET crs == child_range_size(lo, hi)
         IN  Nodes(t * 2 + 1, lo, hi - crs, lo + crs) \cup
             Nodes(t * 2 + 2, lo + crs, hi, cov)
    ELSE {}

\* the number of set bits of vals at the indices [lo, hi)
popcount(vals, lo, hi) == Cardinality({i \in lo..(hi - 1) : vals[i]})

\* the number of unset bits of vals at the indices [0, n)
NaiveUnsetBefore(vals, n) == Cardinality({i \in 0..(n - 1) : ~vals[i]})

(***************************************************************************)
(* The LRArray as a state machine: an array of any size 0..MaxBits, and    *)
(* any sequence of calls on it.  A call that panics ends the array's life. *)
(***************************************************************************)
NoCall(size) ==
    [op |-> "new", arg |-> size, ret |-> 0, panic |-> FALSE,
     k_lt_2 |-> TRUE, bit_unset |-> TRUE, before |-> LRArray(size)]

IdleLehmer == buf = [val |-> <<>>, panic |-> FALSE] /\ orig = <<>> /\ ops = <<>>
IdleCodec ==
    /\ cmode = "Fast" /\ input = <<>> /\ stream = <<>>
    /\ result = [val |-> <<>>, panic |-> FALSE] /\ range = <<0, 0>> /\ pc = "idle"
IdleLR == lr = LRArray(0) /\ call = NoCall(0) /\ hist = <<>>

Init ==
    /\ \E size \in 0..MaxBits : lr = LRArray(size) /\ call = NoCall(size)
    /\ hist = <<>>
    /\ IdleLehmer /\ IdleCodec

UnsetBefore(n) ==
    /\ ~call.panic
    /\ call' = [op |-> "unset_before", arg |-> n, ret |-> unset_before(lr, n),
                panic |-> FALSE, k_lt_2 |-> TRUE, bit_unset |-> TRUE,
                before |-> lr]
    /\ UNCHANGED <<lr, hist, lehmerVars, codecVars>>

SetNthBit(n) ==
    /\ ~call.panic
    /\ LET r == set_nth_bit(lr, n)
       IN  /\ lr' = r.lr
           /\ call' = [op |-> "set_nth_bit", arg |-> n,
                       ret |-> IF r.ret THEN 1 ELSE 0, panic |-> r.panic,
                       k_lt_2 |-> TRUE, bit_unset |-> TRUE, before |-> lr]
    /\ UNCHANGED <<hist, lehmerVars, codecVars>>

SetKthUnsetBit(k) ==
    /\ ~call.panic
    /\ LET r == set_kth_unset_bit(lr, k)
       IN  /\ lr' = r.lr
           /\ call' = [op |-> "set_kth_unset_bit", arg |-> k, ret |-> r.ret,
                       panic |-> r.panic, k_lt_2 |-> r.k_lt_2,
                       bit_unset |-> r.bit_unset, before |-> lr]
    /\ UNCHANGED <<hist, lehmerVars, codecVars>>

Next ==
    \/ \E n \in 0..(lr.total_bits + 1) : UnsetBefore(n)
    \/ \E n \in 0..lr.total_bits : SetNthBit(n)
    \/ \E k \in 0..lr.total_bits : SetKthUnsetBit(k)

Spec == Init /\ [][Next]_vars

(***************************************************************************)
(* C5.  After any sequence of set_nth_bit and set_kth_unset_bit calls,     *)
(* unset_before(n) returns the naive count of the unset bits of vals at    *)
(* the indices [0, n) for every n < total_bits, returns unset_bits() for   *)
(* every n >= total_bits, and leaves the array as it was.                  *)
(***************************************************************************)
C5_UnsetBeforeIsNaiveCount ==
    call.op = "unset_before" =>
        /\ ~call.panic
        /\ lr = call.before
        /\ call.arg < lr.total_bits =>
               call.ret = NaiveUnsetBefore(lr.vals, call.arg)
        /\ call.arg >= lr.total_bits =>
               call.ret = lr.total_bits - lr.total_set_bits

\* unset_before(2) on an array of 5 bits (node 1 has the odd width 3), after
\* bits were set, bit 1 among them and bit 0 not
C5_Witness ==
    /\ call.op = "unset_before" /\ call.arg = 2 /\ lr.total_bits = 5
    /\ lr.total_set_bits >= 2 /\ lr.vals[1] /\ ~lr.vals[0] /\ call.ret = 1

(***************************************************************************)
(* C6.  set_kth_unset_bit(k) with k < unset_bits() does not panic, its two *)
(* leaf assertions hold, and it returns the index i such that bit i was    *)
(* unset and exactly k unset bits lay strictly before i; it sets bit i and *)
(* no other bit.                                                           *)
(***************************************************************************)
C6_SetKthSelectsKthUnset ==
    (call.op = "set_kth_unset_bit" /\ call.arg < unset_bits(call.before)) =>
        /\ ~call.panic /\ call.k_lt_2 /\ call.bit_unset
        /\ call.ret \in 0..(lr.total_bits - 1)
        /\ ~call.before.vals[call.ret]
        /\ NaiveUnsetBefore(call.before.vals, call.ret) = call.arg
        /\ lr.vals = [call.before.vals EXCEPT ![call.ret] = TRUE]
        /\ lr.total_bits = call.before.total_bits

\* the tie-break at the leaf [3, 5) of an array of 5 bits: k = 0 there and
\* bit 3 is already set, so bit 4 is chosen
C6_Witness ==
    /\ call.op = "set_kth_unset_bit" /\ lr.total_bits = 5 /\ ~call.panic
    /\ call.arg = 0 /\ call.ret = 4 /\ call.before.vals[3]

(***************************************************************************)
(* C10 as claimed.  After every mutation every node t the descent reaches  *)
(* with the range [curr_start, curr_stop) = [lo, hi) has                   *)
(* f[t] = popcount(vals[lo..hi)), f[0] = popcount(vals) = total_set_bits,  *)
(* and f[t] = f[2t+1] + f[2t+2] for every node of width > 2.               *)
(***************************************************************************)
C10_CountersMatchDescentRange ==
    ~call.panic =>
        /\ lr.total_bits > 0 =>
               /\ lr.f[0] = popcount(lr.vals, 0, lr.total_bits)
               /\ lr.f[0] = lr.total_set_bits
        /\ \A nd \in Nodes(0, 0, lr.total_bits, lr.total_bits) :
               /\ lr.total_bits > 0 =>
                      lr.f[nd.t] = popcount(lr.vals, nd.lo, nd.hi)
               /\ nd.hi - nd.lo > 2 =>
                      lr.f[nd.t] = lr.f[nd.t * 2 + 1] + lr.f[nd.t * 2 + 2]

(***************************************************************************)
(* C10 as amended.  After every mutation every node t the descent reaches  *)
(* has f[t] = popcount of vals over the indices whose descent passes       *)
(* through t.  With [lo, hi) = [curr_start, curr_stop) at t, these are     *)
(* [lo, hi) or [lo, hi - 1): [0, N) at the root; going left curr_stop is   *)
(* lowered by child_range_size, so below a node of odd width the left      *)
(* child's [lo, hi) ends one index past the midpoint, and that index is    *)
(* counted by the right child alone.  f[0] = popcount(vals) =              *)
(* total_set_bits, and f[t] = f[2t+1] + f[2t+2] at every node of           *)
(* width > 2.                                                              *)
(***************************************************************************)
C10_CountersMatchReachingIndices ==
    ~call.panic =>
        /\ lr.total_bits > 0 =>
               /\ lr.f[0] = popcount(lr.vals, 0, lr.total_bits)
               /\ lr.f[0] = lr.total_set_bits
        /\ \A nd \in Nodes(0, 0, lr.total_bits, lr.total_bits) :
               /\ nd.cov \in {nd.hi - 1, nd.hi}
               /\ lr.total_bits > 0 =>
                      lr.f[nd.t] = popcount(lr.vals, nd.lo, nd.cov)
               /\ nd.hi - nd.lo > 2 =>
                      lr.f[nd.t] = lr.f[nd.t * 2 + 1] + lr.f[nd.t * 2 + 2]

\* an array of 5 bits after set_nth_bit(2): bit 2 lies in the descent range
\* [0, 3) of node 1, and its descent goes to node 2
C10_Witness ==
    /\ call.op = "set_nth_bit" /\ call.arg = 2 /\ call.ret = 0 /\ ~call.panic
    /\ lr.total_bits = 5 /\ lr.total_set_bits = 3
    /\ lr.f[0] = 3 /\ lr.f[1] = 2 /\ lr.f[2] = 1

(***************************************************************************)
(* The LRArray(50) scenario of the tests: set_kth_unset_bit calls with the *)
(* arguments of test_set_kth_unset_bit, in any order, and unset_before(5). *)
(* hist records each mutating call as <<argument, value returned>>.        *)
(***************************************************************************)
ScenarioBits == 50
ScenarioKthArgs == {0, 4, 25}
ScenarioBeforeArgs == {5}

InitScenario ==
    /\ lr = LRArray(ScenarioBits) /\ call = NoCall(ScenarioBits) /\ hist = <<>>
    /\ IdleLehmer /\ IdleCodec

ScenarioSetKthUnsetBit(k) ==
    /\ ~call.panic
    /\ Len(hist) < MaxCalls
    /\ LET r == set_kth_unset_bit(lr, k)
       IN  /\ lr' = r.lr
           /\ call' = [op |-> "set_kth_unset_bit", arg |-> k, ret |-> r.ret,
                       panic |-> r.panic, k_lt_2 |-> r.k_lt_2,
                       bit_unset |-> r.bit_unset, before |-> lr]
           /\ hist' = Append(hist, <<k, r.ret>>)
    /\ UNCHANGED <<lehmerVars, codecVars>>

ScenarioUnsetBefore(n) ==
    /\ ~call.panic
    /\ call' = [op |-> "unset_before", arg |-> n, ret |-> unset_before(lr, n),
                panic |-> FALSE, k_lt_2 |-> TRUE, bit_unset |-> TRUE,
                before |-> lr]
    /\ UNCHANGED <<lr, hist, lehmerVars, codecVars>>

NextScenario ==
    \/ \E k \in ScenarioKthArgs : ScenarioSetKthUnsetBit(k)
    \/ \E n \in ScenarioBeforeArgs : ScenarioUnsetBefore(n)

SpecScenario == InitScenario /\ [][NextScenario]_vars

\* the arguments of test_set_kth_unset_bit and the values it asserts
TestKthArgs == <<4, 4, 4, 0, 4, 25>>
TestKthRets == <<4, 5, 6, 0, 8, 30>>
HistArgs == [i \in 1..Len(hist) |-> hist[i][1]]
HistRets == [i \in 1..Len(hist) |-> hist[i][2]]
\* the calls made so far are the first calls of the test, in its order
TestPrefix ==
    /\ Len(hist) <= Len(TestKthArgs)
    /\ HistArgs = SubSeq(TestKthArgs, 1, Len(hist))
\* and each returned what the test asserts
TestRetsSoFar == ~call.panic /\ HistRets = SubSeq(TestKthRets, 1, Len(hist))

(***************************************************************************)
(* C9 as claimed.  On a fresh LRArray(50) the calls set_kth_unset_bit(4),  *)
(* (4), (4), (0), (4), (25) return 4, 5, 6, 0, 8, 30, and after them       *)
(* unset_before(5) returns 1.                                              *)
(***************************************************************************)
C9_ScenarioUnsetBeforeIsOne ==
    /\ TestPrefix => TestRetsSoFar
    /\ (HistArgs = TestKthArgs /\ call.op = "unset_before" /\ call.arg = 5) =>
           call.ret = 1

(***************************************************************************)
(* C9 as amended.  On a fresh LRArray(50) the calls set_kth_unset_bit(4),  *)
(* (4), (4), (0), (4), (25) return 4, 5, 6, 0, 8, 30, and after them       *)
(* unset_before(5) returns 3 (bits 1, 2 and 3 are the unset bits before    *)
(* index 5).                                                               *)
(***************************************************************************)
C9_ScenarioUnsetBeforeIsThree ==
    /\ TestPrefix => TestRetsSoFar
    /\ (HistArgs = TestKthArgs /\ call.op = "unset_before" /\ call.arg = 5) =>
           call.ret = 3

\* the six calls were made and unset_before(5) was called after them
C9_Witness ==
    /\ HistArgs = TestKthArgs /\ call.op = "unset_before" /\ call.arg = 5
    /\ lr.total_bits = 50 /\ lr.total_set_bits = 6

(***************************************************************************)
(*                          Lehmer transforms                              *)
(***************************************************************************)
\* One iteration of the for loop of perm_to_lehmer, on element i (perm[i]
\* here, perm[i - 1] in the code).  st holds the slice, the LRArray and
\* whether an earlier iteration panicked; a failed assertion and a panic of
\* set_nth_bit both end the loop with the slice as written so far.
perm_to_lehmer_step(st, i) ==
    IF st.panic THEN st
    ELSE LET prev_val == st.val[i]
             curr_val == unset_before(st.lr, prev_val)
             r == set_nth_bit(st.lr, prev_val)
         IN  [val |-> [st.val EXCEPT ![i] = curr_val], lr |-> r.lr,
              panic |-> r.panic \/ r.ret]

\* The iterations i..j of the for loop, in order (split in halves to keep
\* the evaluation shallow); a panic ends the loop.
RECURSIVE perm_to_lehmer_loop(_, _, _)
perm_to_lehmer_loop(st, i, j) ==
    IF i > j THEN st
    ELSE IF i = j THEN perm_to_lehmer_step(st, i)
    ELSE LET mid == (i + j) \div 2
             left == perm_to_lehmer_loop(st, i, mid)
         IN  IF left.panic THEN left ELSE perm_to_lehmer_loop(left, mid + 1, j)

perm_to_lehmer(perm) ==
    LET st == perm_to_lehmer_loop(
                  [val |-> perm, lr |-> LRArray(Len(perm)), panic |-> FALSE],
                  1, Len(perm))
    IN  [val |-> st.val, panic |-> st.panic]

\* One iteration of the for loop of lehmer_to_perm, on element i.
lehmer_to_perm_step(st, i) ==
    IF st.panic THEN st
    ELSE LET r == set_kth_unset_bit(st.lr, st.val[i])
         IN  IF r.panic
             THEN [st EXCEPT !.panic = TRUE]
             ELSE [val |-> [st.val EXCEPT ![i] = r.ret], lr |-> r.lr,
                   panic |-> FALSE]

\* The iterations i..j of the for loop, in order.
RECURSIVE lehmer_to_perm_loop(_, _, _)
lehmer_to_perm_loop(st, i, j) ==
    IF i > j THEN st
    ELSE IF i = j THEN lehmer_to_perm_step(st, i)
    ELSE LET mid == (i + j) \div 2
             left == lehmer_to_perm_loop(st, i, mid)
         IN  IF left.panic THEN left ELSE lehmer_to_perm_loop(left, mid + 1, j)

lehmer_to_perm(lehmer) ==
    LET st == lehmer_to_perm_loop(
                  [val |-> lehmer, lr |-> LRArray(Len(lehmer)), panic |-> FALSE],
                  1, Len(lehmer))
    IN  [val |-> st.val, panic |-> st.panic]

\* p is a permutation of {0..Len(p)-1}
IsPerm(p) ==
    /\ \A i \in 1..Len(p) : p[i] \in 0..(Len(p) - 1)
    /\ \A i, j \in 1..Len(p) : i # j => p[i] # p[j]

\* l is a Lehmer code: element i of the code (l[i + 1]) is in 0..N-1-i
IsLehmer(l) == \A i \in 1..Len(l) : l[i] \in 0..(Len(l) - i)

\* the sequence p with v put in at position i
InsertAt(p, i, v) == SubSeq(p, 1, i - 1) \o <<v>> \o SubSeq(p, i, Len(p))

\* every permutation of {0..n-1}
RECURSIVE Perms(_)
Perms(n) ==
    IF n = 0 THEN {<<>>}
    ELSE {InsertAt(p, i, n - 1) : p \in Perms(n - 1), i \in 1..n}

\* every Lehmer code of length n (as random_lehmer of the tests draws them)
RECURSIVE Lehmers(_)
Lehmers(n) ==
    IF n = 0 THEN {<<>>}
    ELSE {<<k>> \o l : k \in 0..(n - 1), l \in Lehmers(n - 1)}

(***************************************************************************)
(* The transforms as a state machine: a slice that holds a permutation or  *)
(* a Lehmer code of length 0..MaxLen, rewritten in place by up to MaxOps   *)
(* transforms.  A panic ends the run.                                      *)
(***************************************************************************)
InitLehmer ==
    /\ \E n \in 0..MaxLen : orig \in Perms(n) \cup Lehmers(n)
    /\ buf = [val |-> orig, panic |-> FALSE]
    /\ ops = <<>>
    /\ IdleLR /\ IdleCodec

PermToLehmer ==
    /\ ~buf.panic /\ Len(ops) < MaxOps
    /\ buf' = perm_to_lehmer(buf.val)
    /\ ops' = Append(ops, "perm_to_lehmer")
    /\ UNCHANGED <<orig, lrVars, codecVars>>

LehmerToPerm ==
    /\ ~buf.panic /\ Len(ops) < MaxOps
    /\ buf' = lehmer_to_perm(buf.val)
    /\ ops' = Append(ops, "lehmer_to_perm")
    /\ UNCHANGED <<orig, lrVars, codecVars>>

NextLehmer == PermToLehmer \/ LehmerToPerm

SpecLehmer == InitLehmer /\ [][NextLehmer]_vars

(***************************************************************************)
(* C3.  The two transforms are mutual inverses: lehmer_to_perm after       *)
(* perm_to_lehmer gives back every valid permutation, and perm_to_lehmer   *)
(* after lehmer_to_perm gives back every valid Lehmer code, for every      *)
(* length (odd and non-power-of-two lengths among them).                   *)
(***************************************************************************)
C3_TransformsAreInverses ==
    /\ (IsPerm(orig) /\ ops = <<"perm_to_lehmer", "lehmer_to_perm">>) =>
           (~buf.panic /\ buf.val = orig)
    /\ (IsLehmer(orig) /\ ops = <<"lehmer_to_perm", "perm_to_lehmer">>) =>
           (~buf.panic /\ buf.val = orig)

\* a permutation of odd length 5 that is no Lehmer code, after the round trip
C3_Witness ==
    /\ orig = <<3, 0, 4, 1, 2>> /\ ops = <<"perm_to_lehmer", "lehmer_to_perm">>
    /\ buf.val = orig /\ ~buf.panic

(***************************************************************************)
(* C4.  For every valid permutation P, perm_to_lehmer rewrites P into L    *)
(* where L[i] is the number of positions j > i with P[j] < P[i], so that   *)
(* 0 <= L[i] <= N-1-i.                                                     *)
(***************************************************************************)
C4_LehmerCountsSmallerToTheRight ==
    (IsPerm(orig) /\ ops = <<"perm_to_lehmer">>) =>
        /\ ~buf.panic
        /\ Len(buf.val) = Len(orig)
        /\ \A i \in 1..Len(orig) :
               /\ buf.val[i] =
                      Cardinality({j \in (i + 1)..Len(orig) : orig[j] < orig[i]})
               /\ buf.val[i] \in 0..(Len(orig) - i)

\* a permutation of length 5 with inversions, after perm_to_lehmer
C4_Witness ==
    /\ orig = <<3, 0, 4, 1, 2>> /\ ops = <<"perm_to_lehmer">>
    /\ buf.val = <<3, 0, 2, 0, 0>>

(***************************************************************************)
(*                     The block bit-packer (BitPacker4x)                  *)
(*                                                                         *)
(* The packer of the bitpacking crate handles blocks of BLOCK_LEN = 128    *)
(* integers as 32 rows of 4 lanes: integer 4*i + j of the block is the     *)
(* i-th of lane j.  Each lane packs its 32 integers, num_bits bits each,   *)
(* lowest bit first, into num_bits 32-bit little-endian words; word m of   *)
(* lane j is bytes 16*m + 4*j .. 16*m + 4*j + 3 of the output.             *)
(***************************************************************************)
BLOCK_LEN == 128

\* the number of bits of v
RECURSIVE BitLen(_)
BitLen(v) == IF v = 0 THEN 0 ELSE 1 + BitLen(v \div 2)

\* the greatest element of a non-empty sequence of naturals
SeqMax(block) == CHOOSE v \in {block[i] : i \in 1..Len(block)} :
                     \A i \in 1..Len(block) : block[i] <= v

\* packer.num_bits(data): the least width that holds every integer
num_bits(block) == BitLen(SeqMax(block))

\* bit b of v
Bit(v, b) == (v \div 2^b) % 2

\* bit p of the packed stream of lane j
LaneBit(block, w, j, p) == Bit(block[4 * (p \div w) + j + 1], p % w)

\* byte q (from 0) of the packed block
PackedByte(block, w, q) ==
    LET m == q \div 16
        j == (q % 16) \div 4
        p0 == 32 * m + 8 * (q % 4)
    IN  LaneBit(block, w, j, p0)
        + 2 * LaneBit(block, w, j, p0 + 1)
        + 4 * LaneBit(block, w, j, p0 + 2)
        + 8 * LaneBit(block, w, j, p0 + 3)
        + 16 * LaneBit(block, w, j, p0 + 4)
        + 32 * LaneBit(block, w, j, p0 + 5)
        + 64 * LaneBit(block, w, j, p0 + 6)
        + 128 * LaneBit(block, w, j, p0 + 7)

\* packer.compress(block, out, num_bits): the num_bits * BLOCK_LEN / 8 bytes written
packer_compress(block, w) ==
    [q \in 1..((w * BLOCK_LEN) \div 8) |-> PackedByte(block, w, q - 1)]

\* bit p of the packed stream of lane j, read from the bytes after offset off
StreamBit(data, off, j, p) ==
    Bit(data[off + 16 * (p \div 32) + 4 * j + ((p % 32) \div 8) + 1], p % 8)

\* the integer of w bits at bit p of lane j
RECURSIVE UnpackValue(_, _, _, _, _)
UnpackValue(data, off, j, p, w) ==
    IF w = 0 THEN 0
    ELSE StreamBit(data, off, j, p) + 2 * UnpackValue(data, off, j, p + 1, w - 1)

\* packer.decompress(&data[off..], block, num_bits): the BLOCK_LEN integers read
packer_decompress(data, off, w) ==
    [v \in 1..BLOCK_LEN |->
        UnpackValue(data, off, (v - 1) % 4, ((v - 1) \div 4) * w, w)]

(***************************************************************************)
(*                           Framing codec                                 *)
(***************************************************************************)
Min(x, y) == IF x < y THEN x ELSE y
Max(x, y) == IF x > y THEN x ELSE y

\* (perm.len() as u32).to_le_bytes()
to_be_bytes(n) ==
    << (n \div 16777216) % 256, (n \div 65536) % 256, (n \div 256) % 256, n % 256 >>
to_le_bytes(n) ==
    << n % 256, (n \div 256) % 256, (n \div 65536) % 256, (n \div 16777216) % 256 >>

\* u32::from_le_bytes(data[0..4])
from_le_bytes(data) ==
    data[1] + 256 * data[2] + 65536 * data[3] + 16777216 * data[4]

\* let data = &perm[start..stop];
block_data(perm, idx) ==
    [v \in 1..(Min(Len(perm), idx + BLOCK_LEN) - idx) |-> perm[idx + v]]

\* let mut padded = vec![0_u32; BLOCK_LEN]; padded[0..data.len()].copy_from_slice(data);
padded(data) ==
    [v \in 1..BLOCK_LEN |-> IF v <= Len(data) THEN data[v] ELSE 0]

\* The for loop of compress_permutation from the block at idx on: out is
\* compressed[0..next_free_index], cap the length compressed was given.
RECURSIVE compress_loop(_, _, _, _)
compress_loop(perm, idx, out, cap) ==
    IF idx >= Len(perm)
    THEN [val |-> out, panic |-> FALSE]
    ELSE LET data == block_data(perm, idx)
             block == IF Len(data) = BLOCK_LEN THEN data ELSE padded(data)
             w == num_bits(block)
             bytes_written == (w * BLOCK_LEN) \div 8
         IN  IF Len(out) >= cap \/ cap - (Len(out) + 1) < bytes_written
             THEN [val |-> out, panic |-> TRUE]
             ELSE compress_loop(perm, idx + BLOCK_LEN,
                                out \o <<w>> \o packer_compress(block, w), cap)

\* compress_permutation: the bytes returned, or a panic
compress_permutation(mode, perm) ==
    LET t == IF mode = "Slow" THEN perm_to_lehmer(perm)
                              ELSE [val |-> perm, panic |-> FALSE]
        perm_len == Max(Len(perm), BLOCK_LEN)
        cap == 4 + (perm_len * 4) + (perm_len \div BLOCK_LEN)
    IN  IF t.panic
        THEN [val |-> <<>>, panic |-> TRUE]
        ELSE compress_loop(t.val, 0, to_le_bytes(Len(perm)), cap)

\* The while loop the two decoders share, from byte next_byte on: the blocks
\* decoded in order, or a panic (a width above 32, a payload cut short).
RECURSIVE decode_blocks(_, _, _)
decode_blocks(data, next_byte, blocks) ==
    IF next_byte = Len(data)
    THEN [val |-> blocks, panic |-> FALSE]
    ELSE LET w == data[next_byte + 1]
             n == (w * BLOCK_LEN) \div 8
         IN  IF w > 32 \/ Len(data) - (next_byte + 1) < n
             THEN [val |-> blocks, panic |-> TRUE]
             ELSE decode_blocks(data, next_byte + 1 + n,
                                Append(blocks, packer_decompress(data, next_byte + 1, w)))

\* result.extend_from_slice(&block) of every block
RECURSIVE Concat(_)
Concat(blocks) ==
    IF blocks = <<>> THEN <<>> ELSE Head(blocks) \o Concat(Tail(blocks))

\* result.truncate(perm_len)
truncate_skipped(seq, len) == seq
truncate(seq, len) == IF Len(seq) > len THEN SubSeq(seq, 1, len) ELSE seq

\* decompress_permutation, given what its while loop decodes
decompress_permutation_of(mode, data, decoded) ==
    IF Len(data) < 4 \/ decoded.panic
    THEN [val |-> <<>>, panic |-> TRUE]
    ELSE LET perm_len == from_le_bytes(data)
             res == truncate(Concat(decoded.val), perm_len)
         IN  IF mode = "Slow" THEN lehmer_to_perm(res)
                              ELSE [val |-> res, panic |-> FALSE]

decompress_permutation(mode, data) ==
    decompress_permutation_of(mode, data, decode_blocks(data, 4, <<>>))

\* rel_start and rel_end of the block curr_block_idx
rel_start(rg, curr_block_idx) ==
    LET curr_block_start == curr_block_idx * BLOCK_LEN
    IN  IF rg[1] > curr_block_start THEN rg[1] - curr_block_start ELSE 0

rel_end_whole_block(rg, curr_block_idx) == BLOCK_LEN
rel_end(rg, curr_block_idx) ==
    LET curr_block_start == curr_block_idx * BLOCK_LEN
        curr_block_stop == curr_block_start + BLOCK_LEN
    IN  IF rg[2] < curr_block_stop THEN rg[2] - curr_block_start ELSE BLOCK_LEN

\* The body of the while loop of decompress_permutation_range in Fast mode,
\* from the block curr_block_idx on; rg is <<range.start, range.end>>.
RECURSIVE range_loop(_, _, _, _)
range_loop(blocks, rg, curr_block_idx, res) ==
    IF curr_block_idx >= Len(blocks)
    THEN [val |-> res, panic |-> FALSE]
    ELSE LET first_block_idx == rg[1] \div BLOCK_LEN
             last_block_idx == rg[2] \div BLOCK_LEN
             rs == rel_start(rg, curr_block_idx)
             re == rel_end(rg, curr_block_idx)
         IN  IF curr_block_idx >= first_block_idx /\ curr_block_idx <= last_block_idx
             THEN IF rs > re \/ re > BLOCK_LEN
                  THEN [val |-> res, panic |-> TRUE]
                  ELSE range_loop(blocks, rg, curr_block_idx + 1,
                                  res \o SubSeq(blocks[curr_block_idx + 1], rs + 1, re))
             ELSE range_loop(blocks, rg, curr_block_idx + 1, res)

\* perm[range].to_vec()
slice(perm, rg) ==
    IF rg[1] > rg[2] \/ rg[2] > Len(perm)
    THEN [val |-> <<>>, panic |-> TRUE]
    ELSE [val |-> SubSeq(perm, rg[1] + 1, rg[2]), panic |-> FALSE]

\* decompress_permutation_range, given what its while loop decodes (Fast)
\* and what decompress_permutation returns on the same bytes (Slow)
decompress_permutation_range_of(mode, data, decoded, perm, rg) ==
    IF mode = "Slow"
    THEN IF perm.panic THEN perm ELSE slice(perm.val, rg)
    ELSE IF Len(data) < 4 \/ decoded.panic
         THEN [val |-> <<>>, panic |-> TRUE]
         ELSE range_loop(decoded.val, rg, 0, <<>>)

decompress_permutation_range(mode, data, rg) ==
    decompress_permutation_range_of(mode, data, decode_blocks(data, 4, <<>>),
                                    decompress_permutation(mode, data), rg)

(***************************************************************************)
(* The codec as a state machine: compress_permutation on a permutation,    *)
(* then decompress_permutation or decompress_permutation_range on the      *)
(* bytes it returned.  The decoders borrow the bytes and keep no state, so *)
(* each call is taken from the state the compression left.                 *)
(***************************************************************************)
Identity(n) == [i \in 1..n |-> i - 1]
Reverse(n) == [i \in 1..n |-> n - i]
\* the even values going up, then the odd values going down
Shuffle(n) == [i \in 1..n |-> IF 2 * (i - 1) < n THEN 2 * (i - 1)
                                                  ELSE 2 * (n - i) + 1]

\* lengths one below, at and two above each multiple of BLOCK_LEN
LongLens == UNION {{k * BLOCK_LEN - 1, k * BLOCK_LEN, k * BLOCK_LEN + 2} :
                       k \in 1..MaxBlocks}

CodecInputs ==
    UNION {Perms(n) : n \in 0..MaxSmall}
    \cup UNION {{Identity(n), Reverse(n), Shuffle(n)} : n \in LongLens}

\* range bounds tried on a permutation of length n: around 0, around n and
\* around the block boundaries
RangePoints(n) ==
    {x \in {0, 1, 2, n - 1, n, n + 1,
            BLOCK_LEN - 1, BLOCK_LEN, BLOCK_LEN + 1, 2 * BLOCK_LEN} :
        x >= 0 /\ x <= n + BLOCK_LEN + 1}

NoResult == [val |-> <<>>, panic |-> FALSE]

InitCodec ==
    /\ cmode \in {"Fast", "Slow"}
    /\ input \in CodecInputs
    /\ stream = <<>> /\ result = NoResult /\ range = <<0, 0>> /\ pc = "start"
    /\ IdleLR /\ IdleLehmer

Compress ==
    /\ pc = "start"
    /\ LET c == compress_permutation(cmode, input)
       IN  /\ stream' = c.val
           /\ pc' = IF c.panic THEN "panic" ELSE "compressed"
    /\ UNCHANGED <<cmode, input, result, range, lrVars, lehmerVars>>

Decompress ==
    /\ pc = "compressed"
    /\ result' = decompress_permutation(cmode, stream)
    /\ pc' = "decompress"
    /\ UNCHANGED <<cmode, input, stream, range, lrVars, lehmerVars>>

\* every call <<range, outcome>> of decompress_permutation_range on data with
\* range bounds in RangePoints(n); what the calls share is evaluated once
RangeCalls(mode, data, n) ==
    LET decoded == decode_blocks(data, 4, <<>>)
        perm == decompress_permutation_of(mode, data, decoded)
    IN  {<< <<lo, hi>>,
            decompress_permutation_range_of(mode, data, decoded, perm, <<lo, hi>>) >> :
            lo \in RangePoints(n), hi \in RangePoints(n)}

DecompressRange ==
    /\ pc = "compressed"
    /\ \E c \in RangeCalls(cmode, stream, Len(input)) :
           /\ range' = c[1]
           /\ result' = c[2]
    /\ pc' = "range"
    /\ UNCHANGED <<cmode, input, stream, lrVars, lehmerVars>>

NextCodec == Compress \/ Decompress \/ DecompressRange

SpecCodec == InitCodec /\ [][NextCodec]_vars

(***************************************************************************)
(* C1.  For both modes and every valid permutation P, of length 0, below   *)
(* BLOCK_LEN, a multiple of BLOCK_LEN or not, compress_permutation does    *)
(* not panic and decompress_permutation of its bytes returns exactly P.    *)
(***************************************************************************)
C1_DecompressInvertsCompress ==
    /\ pc # "panic"
    /\ pc = "decompress" => (~result.panic /\ result.val = input)

\* Slow mode, two blocks, the second one padded
C1_Witness ==
    /\ pc = "decompress" /\ cmode = "Slow" /\ input = Shuffle(BLOCK_LEN + 2)
    /\ result.val = input /\ Len(stream) > 4

(***************************************************************************)
(* C2.  In Fast mode, for every valid permutation P of length N and every  *)
(* a, b with 0 <= a <= b <= N, decompress_permutation_range on the bytes   *)
(* of P returns exactly P[a..b]: b - a elements and no padding zeros.      *)
(***************************************************************************)
C2_FastRangeIsSlice ==
    (pc = "range" /\ cmode = "Fast"
        /\ range[1] <= range[2] /\ range[2] <= Len(input)) =>
        /\ ~result.panic
        /\ Len(result.val) = range[2] - range[1]
        /\ \A i \in 1..Len(result.val) : result.val[i] = input[range[1] + i]

\* a range that starts in the first block and ends at N, in the padded block
C2_Witness ==
    /\ pc = "range" /\ cmode = "Fast" /\ input = Shuffle(BLOCK_LEN + 2)
    /\ range = <<BLOCK_LEN - 1, BLOCK_LEN + 2>>
    /\ ~result.panic /\ Len(result.val) = 3

(***************************************************************************)
(* C7.  A range [lo, hi) with hi > N or lo > hi is fatal to the call: in   *)
(* both modes decompress_permutation_range fails and returns no sequence.  *)
(***************************************************************************)
C7_BadRangeFails ==
    (pc = "range" /\ (range[2] > Len(input) \/ range[1] > range[2])) =>
        result.panic

\* the framing of data from byte pos on: the blocks counted, whether every
\* width is at most 32, and the byte the walk ends at
RECURSIVE Frames(_, _, _)
Frames(data, pos, count) ==
    IF pos >= Len(data)
    THEN [count |-> count, stop |-> pos, widths_ok |-> TRUE]
    ELSE LET w == data[pos + 1]
         IN  IF w > 32
             THEN [count |-> count, stop |-> pos, widths_ok |-> FALSE]
             ELSE Frames(data, pos + 1 + (w * BLOCK_LEN) \div 8, count + 1)

\* the stream is the 4-byte little-endian n and then whole blocks
Framed(data, n) ==
    /\ Len(data) >= 4
    /\ data[1] + 256 * data[2] + 65536 * data[3] + 16777216 * data[4] = n
    /\ Frames(data, 4, 0).widths_ok
    /\ Frames(data, 4, 0).stop = Len(data)

CeilDiv(x, y) == (x + y - 1) \div y

(***************************************************************************)
(* C8 as claimed.  The stream compress_permutation returns for an input of *)
(* length N is the 4-byte little-endian N followed by blocks of            *)
(* 1 + w*B/8 bytes each; there are ceil(N/B) blocks when N >= B and        *)
(* exactly one block for every N with 0 <= N < B.                          *)
(***************************************************************************)
C8_OneBlockBelowBlockLen ==
    pc = "compressed" =>
        /\ Framed(stream, Len(input))
        /\ Frames(stream, 4, 0).count =
               IF Len(input) >= BLOCK_LEN THEN CeilDiv(Len(input), BLOCK_LEN) ELSE 1

(***************************************************************************)
(* C8 as amended.  The stream compress_permutation returns for an input of *)
(* length N is the 4-byte little-endian N followed by blocks of            *)
(* 1 + w*B/8 bytes each; there are ceil(N/B) blocks for every N: exactly   *)
(* one block for 0 < N < B and no block at all (a 4-byte stream) for N = 0.*)
(***************************************************************************)
C8_CeilBlocks ==
    pc = "compressed" =>
        /\ Framed(stream, Len(input))
        /\ Frames(stream, 4, 0).count = CeilDiv(Len(input), BLOCK_LEN)
        /\ Len(input) = 0 => stream = <<0, 0, 0, 0>>

\* two blocks for the identity of length BLOCK_LEN + 2: width 7 for the
\* values 0..127, width 8 for the padded block that holds 128 and 129
C8_Witness ==
    /\ pc = "compressed" /\ cmode = "Fast" /\ input = Identity(BLOCK_LEN + 2)
    /\ Frames(stream, 4, 0).count = 2
    /\ stream[5] = 7 /\ stream[5 + 1 + (7 * BLOCK_LEN) \div 8] = 8
    /\ Len(stream) = 4 + (1 + (7 * BLOCK_LEN) \div 8) + (1 + (8 * BLOCK_LEN) \div 8)

=============================================================================
